---- MODULE Spec2Model ----
(***************************************************************************)
(* Model of fp: device fingerprinting from system attributes.              *)
(*                                                                         *)
(*   src/fp/__init__.py   machine_id(), get_components(), fingerprint()    *)
(*   src/fp/client.py     get_fingerprint(), post_fingerprint()            *)
(*                                                                         *)
(* Python strings are sequences of one-character strings, so that          *)
(* str.strip(), str.startswith(), sorted(), "|".join(), str(int),          *)
(* format(int, "012x") and re.search() are computed character by           *)
(* character.  A Python dict is the sequence of its <<key, value>> items   *)
(* in insertion order, with unique keys.                                   *)
(***************************************************************************)
EXTENDS Integers, Sequences, FiniteSets, TLC

VARIABLES env, call, ret, raw, components, other, raw2, args, net, payload, requests

vars == <<env, call, ret, raw, components, other, raw2, args, net, payload, requests>>

(***************************************************************************)
(* The outcome of a call: it returns a value, returns None, or raises an   *)
(* exception of some class.                                                *)
(***************************************************************************)
Return(v) == [kind |-> "return", value |-> v]

ReturnNone == [kind |-> "none"]

Raise(cls) == [kind |-> "raise", cls |-> cls]

\* The base class of each exception class the environment can raise.
Base ==
    [OSError |-> "Exception", ValueError |-> "Exception",
     ImportError |-> "Exception", CalledProcessError |-> "Exception",
     FileNotFoundError |-> "OSError", PermissionError |-> "OSError",
     TimeoutError |-> "OSError", ConnectionResetError |-> "OSError",
     URLError |-> "OSError", HTTPError |-> "URLError",
     UnicodeDecodeError |-> "ValueError", JSONDecodeError |-> "ValueError",
     RemoteDisconnected |-> "ConnectionResetError",
     gaierror |-> "OSError", Exception |-> "BaseException"]

\* issubclass(cls, base)
RECURSIVE IsSubclass(_, _)
IsSubclass(cls, base) ==
    \/ cls = base
    \/ cls \in DOMAIN Base /\ IsSubclass(Base[cls], base)

\* try: r / except handled: fallback
TryExcept(r, handled, fallback) ==
    IF r.kind = "raise" /\ IsSubclass(r.cls, handled) THEN fallback ELSE r

(***************************************************************************)
(* Characters and strings.                                                 *)
(***************************************************************************)
CodePoint ==
    ("\t" :> 9) @@ ("\n" :> 10) @@ (" " :> 32) @@ ("\"" :> 34) @@ ("-" :> 45)
    @@ ("." :> 46) @@ ("0" :> 48) @@ ("1" :> 49) @@ ("2" :> 50) @@ ("3" :> 51)
    @@ ("4" :> 52) @@ ("5" :> 53) @@ ("6" :> 54) @@ ("7" :> 55) @@ ("8" :> 56)
    @@ ("9" :> 57) @@ (":" :> 58) @@ ("<" :> 60) @@ ("=" :> 61) @@ (">" :> 62)
    @@ ("A" :> 65) @@ ("B" :> 66) @@ ("C" :> 67) @@ ("D" :> 68) @@ ("E" :> 69)
    @@ ("F" :> 70) @@ ("I" :> 73) @@ ("L" :> 76) @@ ("O" :> 79) @@ ("P" :> 80)
    @@ ("U" :> 85) @@ ("[" :> 91) @@ ("]" :> 93) @@ ("_" :> 95) @@ ("a" :> 97)
    @@ ("b" :> 98) @@ ("c" :> 99) @@ ("d" :> 100) @@ ("e" :> 101)
    @@ ("f" :> 102) @@ ("g" :> 103) @@ ("h" :> 104) @@ ("i" :> 105)
    @@ ("k" :> 107) @@ ("l" :> 108) @@ ("m" :> 109) @@ ("n" :> 110)
    @@ ("o" :> 111) @@ ("p" :> 112) @@ ("q" :> 113) @@ ("r" :> 114)
    @@ ("s" :> 115) @@ ("t" :> 116) @@ ("u" :> 117) @@ ("v" :> 118)
    @@ ("w" :> 119) @@ ("x" :> 120) @@ ("y" :> 121) @@ ("z" :> 122)
    @@ ("|" :> 124)

\* Python's str < str: the first differing code point decides, and a
\* proper prefix is smaller.
RECURSIVE StrLess(_, _)
StrLess(a, b) ==
    IF b = <<>> THEN FALSE
    ELSE IF a = <<>> THEN TRUE
    ELSE IF Head(a) = Head(b) THEN StrLess(Tail(a), Tail(b))
    ELSE CodePoint[Head(a)] < CodePoint[Head(b)]

StartsWith(s, p) == Len(s) >= Len(p) /\ SubSeq(s, 1, Len(p)) = p

Whitespace == {" ", "\t", "\n"}

\* str.strip(): drop the leading and the trailing run of whitespace.
RECURSIVE LStrip(_)
LStrip(s) ==
    IF s # <<>> /\ Head(s) \in Whitespace THEN LStrip(Tail(s)) ELSE s

RECURSIVE RStrip(_)
RStrip(s) ==
    IF s # <<>> /\ s[Len(s)] \in Whitespace
    THEN RStrip(SubSeq(s, 1, Len(s) - 1))
    ELSE s

Strip(s) == RStrip(LStrip(s))

\* A join that loses its last part.
RECURSIVE JoinDropLast(_, _)
JoinDropLast(sep, parts) ==
    IF Len(parts) <= 1 THEN <<>>
    ELSE IF Len(parts) = 2 THEN parts[1]
    ELSE parts[1] \o sep \o JoinDropLast(sep, Tail(parts))

\* sep.join(parts)
RECURSIVE Join(_, _)
Join(sep, parts) ==
    IF parts = <<>> THEN <<>>
    ELSE IF Len(parts) = 1 THEN parts[1]
    ELSE parts[1] \o sep \o Join(sep, Tail(parts))

(***************************************************************************)
(* Python dicts in insertion order.                                        *)
(***************************************************************************)
DictKeys(d) == [i \in 1..Len(d) |-> d[i][1]]

KeySet(d) == {d[i][1] : i \in 1..Len(d)}

DictGet(d, k) == d[CHOOSE i \in 1..Len(d) : d[i][1] = k][2]

\* d[k] = v: an existing key keeps its position, a new key goes last.
DictSet(d, k, v) ==
    IF k \in KeySet(d)
    THEN [i \in 1..Len(d) |-> IF d[i][1] = k THEN <<k, v>> ELSE d[i]]
    ELSE Append(d, <<k, v>>)

\* d.update(e): e's items are assigned in e's order.
RECURSIVE DictUpdate(_, _)
DictUpdate(d, e) ==
    IF e = <<>> THEN d
    ELSE DictUpdate(DictSet(d, Head(e)[1], Head(e)[2]), Tail(e))

\* The mapping a dict denotes, without its order.
AsMapping(d) == [k \in KeySet(d) |-> DictGet(d, k)]

\* sorted(iterable of str): ascending code point order.
RECURSIVE InsertSorted(_, _)
InsertSorted(k, s) ==
    IF s = <<>> THEN <<k>>
    ELSE IF StrLess(k, Head(s)) THEN <<k>> \o s
    ELSE <<Head(s)>> \o InsertSorted(k, Tail(s))

RECURSIVE Sorted(_)
Sorted(s) == IF s = <<>> THEN <<>> ELSE InsertSorted(Head(s), Sorted(Tail(s)))

(***************************************************************************)
(* Literals of src/fp/__init__.py.                                         *)
(***************************************************************************)
UNKNOWN == <<"u","n","k","n","o","w","n">>

K_system == <<"s","y","s","t","e","m">>

K_release == <<"r","e","l","e","a","s","e">>

K_version == <<"v","e","r","s","i","o","n">>

K_machine == <<"m","a","c","h","i","n","e">>

K_processor == <<"p","r","o","c","e","s","s","o","r">>

K_architecture == <<"a","r","c","h","i","t","e","c","t","u","r","e">>

K_cpu_count == <<"c","p","u","_","c","o","u","n","t">>

K_python_version == <<"p","y","t","h","o","n","_","v","e","r","s","i","o","n">>

K_python_compiler == <<"p","y","t","h","o","n","_","c","o","m","p","i","l","e","r">>

K_node == <<"n","o","d","e">>

K_fqdn == <<"f","q","d","n">>

K_timezone == <<"t","i","m","e","z","o","n","e">>

K_machine_id == <<"m","a","c","h","i","n","e","_","i","d">>

K_locale == <<"l","o","c","a","l","e">>

K_mac == <<"m","a","c">>

K_ip == <<"i","p">>

LINUX == <<"l","i","n","u","x">>

DARWIN == <<"d","a","r","w","i","n">>

WIN32 == <<"w","i","n","3","2">>

\* The two files in the other order.
MachineIdPathsSwapped == <<"/var/lib/dbus/machine-id", "/etc/machine-id">>

\* The two files machine_id() reads on Linux, in the order of its loop.
MachineIdPaths == <<"/etc/machine-id", "/var/lib/dbus/machine-id">>

\* rb'"IOPlatformUUID" = "' : the literal text before the group of the
\* pattern; the group is [^"]+ and a closing quote follows it.
UuidPrefix ==
    <<"\"","I","O","P","l","a","t","f","o","r","m","U","U","I","D","\"",
      " ","="," ","\"">>

(***************************************************************************)
(* machine_id()                                                            *)
(***************************************************************************)
\* The number of characters other than '"' from position j on.
RECURSIVE RunLen(_, _)
RunLen(s, j) ==
    IF j > Len(s) \/ s[j] = "\"" THEN 0 ELSE 1 + RunLen(s, j + 1)

\* The pattern matches at position i: the prefix, then a greedy non-empty
\* run without a quote, then a quote.
MatchAt(out, i) ==
    LET g == i + Len(UuidPrefix)
    IN  /\ i + Len(UuidPrefix) - 1 <= Len(out)
        /\ SubSeq(out, i, g - 1) = UuidPrefix
        /\ RunLen(out, g) >= 1
        /\ g + RunLen(out, g) <= Len(out)

\* re.search(pattern, out): group 1 of the leftmost match, or None.
ReSearch(out) ==
    IF \E i \in 1..Len(out) : MatchAt(out, i)
    THEN LET i == CHOOSE j \in 1..Len(out) :
                      /\ MatchAt(out, j)
                      /\ \A h \in 1..(j - 1) : ~MatchAt(out, h)
             g == i + Len(UuidPrefix)
         IN  Return(SubSeq(out, g, g + RunLen(out, g) - 1))
    ELSE ReturnNone

\* A byte that is not valid UTF-8.
InvalidByte == "\\xff"

\* bytes.decode()
Decode(b) ==
    IF \E i \in 1..Len(b) : b[i] = InvalidByte
    THEN Raise("UnicodeDecodeError")
    ELSE Return(b)

\* Path(path).read_text().strip()
ReadTextStrip(e, path) ==
    IF e.files[path].kind = "return"
    THEN Return(Strip(e.files[path].value))
    ELSE e.files[path]

\* for path in paths: try: return ... except Exception: pass
RECURSIVE LinuxLoop(_, _)
LinuxLoop(e, paths) ==
    IF paths = <<>> THEN ReturnNone
    ELSE LET r == TryExcept(ReadTextStrip(e, Head(paths)), "Exception",
                            ReturnNone)
         IN  IF r.kind = "none" THEN LinuxLoop(e, Tail(paths)) ELSE r

\* The body of the try block of the darwin branch.
DarwinTry(e) ==
    IF e.ioreg.kind # "return" THEN e.ioreg
    ELSE LET match == ReSearch(e.ioreg.value)
         IN  IF match.kind = "return" THEN Decode(match.value)
             ELSE ReturnNone

\* The body of the try block of the win32 branch: import winreg, OpenKey
\* and QueryValueEx raise, or the value is returned as it is.
Win32Try(e) == e.winreg

\* The branches with the darwin one outside a try block.
PlatformBranchUnguarded(e) ==
    IF StartsWith(e.platform, LINUX) THEN LinuxLoop(e, MachineIdPaths)
    ELSE IF e.platform = DARWIN THEN DarwinTry(e)
    ELSE IF e.platform = WIN32
         THEN TryExcept(Win32Try(e), "Exception", ReturnNone)
    ELSE ReturnNone

\* The branch of the platform, which either returns or falls through.
PlatformBranch(e) ==
    IF StartsWith(e.platform, LINUX) THEN LinuxLoop(e, MachineIdPaths)
    ELSE IF e.platform = DARWIN
         THEN TryExcept(DarwinTry(e), "Exception", ReturnNone)
    ELSE IF e.platform = WIN32
         THEN TryExcept(Win32Try(e), "Exception", ReturnNone)
    ELSE ReturnNone

machine_id(e) ==
    LET r == PlatformBranch(e)
    IN  IF r.kind = "none" THEN Return(UNKNOWN) ELSE r

(***************************************************************************)
(* get_components()                                                        *)
(***************************************************************************)
Digits ==
    <<"0","1","2","3","4","5","6","7","8","9","a","b","c","d","e","f">>

\* The digits of n in the given base, most significant first.
RECURSIVE ToBase(_, _)
ToBase(n, base) ==
    IF n < base THEN <<Digits[n + 1]>>
    ELSE ToBase(n \div base, base) \o <<Digits[(n % base) + 1]>>

\* str(n) for an int n >= 0
StrInt(n) == ToBase(n, 10)

\* format(n, "012x"): lowercase hex, zero-padded on the left to 12
\* characters, longer numbers are not cut.
Format012x(n) ==
    LET h == ToBase(n, 16)
    IN  [i \in 1..(IF Len(h) < 12 THEN 12 - Len(h) ELSE 0) |-> "0"] \o h

\* The keys of the dict literal, in the order it is written.
LiteralKeys ==
    <<K_system, K_release, K_version, K_machine, K_processor,
      K_architecture, K_cpu_count, K_python_version, K_python_compiler,
      K_node, K_fqdn, K_timezone, K_machine_id>>

\* str(os.cpu_count() or "unknown")
CpuCountItem(e) ==
    LET r == e.lookups[K_cpu_count]
    IN  IF r.kind = "raise" THEN r
        ELSE IF r.kind = "none" \/ r.value = 0 THEN Return(UNKNOWN)
        ELSE Return(StrInt(r.value))

\* The value expression of one key of the dict literal.
LiteralItem(e, k) ==
    IF k = K_machine_id THEN machine_id(e)
    ELSE IF k = K_cpu_count THEN CpuCountItem(e)
    ELSE e.lookups[k]

\* The dict literal: its items are evaluated in order, and the first
\* one that raises ends the evaluation.
RECURSIVE DictLiteral(_, _, _)
DictLiteral(e, keys, acc) ==
    IF keys = <<>> THEN Return(acc)
    ELSE LET r == LiteralItem(e, Head(keys))
         IN  IF r.kind = "raise" THEN r
             ELSE DictLiteral(e, Tail(keys),
                              DictSet(acc, Head(keys), r.value))

\* try: loc = locale.getdefaultlocale()[0] / except Exception: loc = None
\* components["locale"] = loc or "unknown"
LocaleItem(e) ==
    LET loc == TryExcept(e.lookups[K_locale], "Exception", ReturnNone)
    IN  IF loc.kind = "none" \/ (loc.kind = "return" /\ loc.value = <<>>)
        THEN Return(UNKNOWN)
        ELSE loc

\* try: format(uuid.getnode(), "012x") / except Exception: "unknown"
MacItem(e) ==
    LET r == e.lookups[K_mac]
    IN  TryExcept(IF r.kind = "return" THEN Return(Format012x(r.value))
                  ELSE r,
                  "Exception", Return(UNKNOWN))

\* try: socket.gethostbyname(socket.gethostname()) / except Exception
IpItem(e) == TryExcept(e.lookups[K_ip], "Exception", Return(UNKNOWN))

\* An assignment components[k] = <item> after the literal.
Assign(d, k, item) ==
    IF d.kind = "raise" THEN d
    ELSE IF item.kind = "raise" THEN item
    ELSE Return(DictSet(d.value, k, item.value))

get_components(e) ==
    Assign(Assign(Assign(DictLiteral(e, LiteralKeys, <<>>),
                         K_locale, LocaleItem(e)),
                  K_mac, MacItem(e)),
           K_ip, IpItem(e))

(***************************************************************************)
(* fingerprint()                                                           *)
(***************************************************************************)
\* A segment whose value is stripped of its surrounding whitespace.
SegmentStripped(d, key) == key \o <<":">> \o Strip(DictGet(d, key))

\* A segment whose value is cut to its first character.
SegmentTruncated(d, key) ==
    key \o <<":">> \o SubSeq(DictGet(d, key), 1, 1)

\* f"{key}:{components[key]}"
Segment(d, key) == key \o <<":">> \o DictGet(d, key)

\* The segments joined in the dict's own order, without sorted().
RawOfUnsorted(d) ==
    Join(<<"|">>, [i \in 1..Len(d) |-> d[i][1] \o <<":">> \o d[i][2]])

\* raw = "|".join(f"{key}:{components[key]}" for key in sorted(components))
RawOf(d) ==
    LET keys == Sorted(DictKeys(d))
    IN  Join(<<"|">>, [i \in 1..Len(keys) |-> Segment(d, keys[i])])

\* hashlib.sha256(raw.encode("utf-8")).hexdigest(): the digest is kept
\* symbolic, as a string that names the string it was computed from.
Sha256Hex(s) == <<"sha256(">> \o s \o <<")">>

fingerprint(e) ==
    LET c == get_components(e)
    IN  IF c.kind = "raise" THEN c ELSE Return(Sha256Hex(RawOf(c.value)))

(***************************************************************************)
(* The environment the lookups run in: sys.platform, the two machine-id    *)
(* files, the ioreg subprocess, the registry, and the outcome of each      *)
(* other lookup of get_components().                                       *)
(***************************************************************************)
\* How many lookups may deviate from the nominal environment.
MaxFaults == 1

LookupKeys ==
    {K_system, K_release, K_version, K_machine, K_processor,
     K_architecture, K_cpu_count, K_python_version, K_python_compiler,
     K_node, K_fqdn, K_timezone, K_locale, K_mac, K_ip}

NominalLookups ==
    [k \in LookupKeys |->
        IF k = K_system THEN Return(<<"L","i","n","u","x">>)
        ELSE IF k = K_release THEN Return(<<"5",".","0">>)
        ELSE IF k = K_version THEN Return(<<"#","1">>)
        ELSE IF k = K_machine THEN Return(<<"x","8","6","_","6","4">>)
        ELSE IF k = K_processor THEN Return(<<"x","8","6">>)
        ELSE IF k = K_architecture THEN Return(<<"6","4","b","i","t">>)
        ELSE IF k = K_cpu_count THEN Return(4)
        ELSE IF k = K_python_version THEN Return(<<"3",".","1","1">>)
        ELSE IF k = K_python_compiler THEN Return(<<"G","C","C">>)
        ELSE IF k = K_node THEN Return(<<"b","o","x">>)
        ELSE IF k = K_fqdn THEN Return(<<"b","o","x",".","l","a","n">>)
        ELSE IF k = K_timezone THEN Return(<<"U","T","C">>)
        ELSE IF k = K_locale THEN Return(<<"e","n","_","U","S">>)
        ELSE IF k = K_mac THEN Return(11259375)
        ELSE Return(<<"1","0",".","0",".","0",".","1">>)]

\* The other outcomes a lookup can have: it raises, or returns None, an
\* empty string or zero where the call can.
Alternatives(k) ==
    IF k = K_cpu_count THEN {Raise("OSError"), ReturnNone}
    ELSE IF k = K_locale
         THEN {Raise("ValueError"), ReturnNone, Return(<<>>)}
    ELSE IF k = K_mac THEN {Raise("OSError"), Return(0)}
    ELSE IF k = K_ip THEN {Raise("gaierror")}
    ELSE {Raise("OSError"), Return(<<>>)}

\* The lookup outcomes that differ from the nominal ones in at most n keys.
RECURSIVE LookupEnvs(_)
LookupEnvs(n) ==
    IF n = 0 THEN {NominalLookups}
    ELSE LET P == LookupEnvs(n - 1)
         IN  P \cup UNION {{[x[1] EXCEPT ![x[2]] = a] : a \in Alternatives(x[2])}
                           : x \in P \X LookupKeys}

FileOutcomes ==
    {Raise("PermissionError"),
     Return(<<"a","b","c","1","2","3","\n">>),
     Return(<<"\t","9","f"," ","\n">>),
     Return(<<"u","n","k","n","o","w","n","\n">>),
     Return(<<>>)}

IoregOutcomes ==
    {Raise("FileNotFoundError"),
     Raise("CalledProcessError"),
     Return(<<"+","-","o"," ","R","o","o","t","\n"," "," ","\"","I","O","P",
              "l","a","t","f","o","r","m","U","U","I","D","\""," ","="," ",
              "\"","A","B","-","1","2","\"","\n"," "," ","\"","I","O","P",
              "l","a","t","f","o","r","m","U","U","I","D","\""," ","="," ",
              "\"","C","D","-","3","4","\"","\n">>),
     Return(<<"+","-","o"," ","R","o","o","t","\n"," "," ","\"","I","O","P",
              "l","a","t","f","o","r","m","S","e","r","i","a","l","N","u",
              "m","b","e","r","\""," ","="," ","\"","C","0","\"","\n">>),
     Return(<<"\"","I","O","P","l","a","t","f","o","r","m","U","U","I","D",
              "\""," ","="," ","\"","\"">>),
     Return(<<"\"","I","O","P","l","a","t","f","o","r","m","U","U","I","D",
              "\""," ","="," ","\"","A","B">>),
     Return(<<"\"","I","O","P","l","a","t","f","o","r","m","U","U","I","D",
              "\""," ","="," ","\"","A",InvalidByte,"\"">>)}

WinregOutcomes ==
    {Raise("ImportError"), Raise("FileNotFoundError"),
     Return(<<"a","b","-","1","2">>)}

Platforms ==
    {LINUX, <<"l","i","n","u","x","2">>, DARWIN, WIN32,
     <<"c","y","g","w","i","n">>}

\* What a platform lacks: no machine-id file, no ioreg, no winreg.
Absent ==
    [files |-> [p \in {MachineIdPaths[1], MachineIdPaths[2]} |->
                   Raise("FileNotFoundError")],
     ioreg |-> Raise("FileNotFoundError"),
     winreg |-> Raise("ImportError")]

\* The platforms with what each of them has.
PlatformEnvs ==
    {[platform |-> p, files |-> f, ioreg |-> Absent.ioreg,
      winreg |-> Absent.winreg]
       : p \in {q \in Platforms : StartsWith(q, LINUX)},
         f \in [{MachineIdPaths[1], MachineIdPaths[2]} -> FileOutcomes]}
    \cup {[platform |-> DARWIN, files |-> Absent.files, ioreg |-> o,
           winreg |-> Absent.winreg] : o \in IoregOutcomes}
    \cup {[platform |-> WIN32, files |-> Absent.files,
           ioreg |-> Absent.ioreg, winreg |-> o] : o \in WinregOutcomes}
    \cup {[platform |-> p, files |-> Absent.files, ioreg |-> Absent.ioreg,
           winreg |-> Absent.winreg]
            : p \in {q \in Platforms :
                        ~StartsWith(q, LINUX) /\ q \notin {DARWIN, WIN32}}}

Envs ==
    {[platform |-> pe.platform, files |-> pe.files, ioreg |-> pe.ioreg,
      winreg |-> pe.winreg, lookups |-> l]
       : pe \in PlatformEnvs, l \in LookupEnvs(MaxFaults)}

(***************************************************************************)
(* Specification Spec: the three functions of src/fp/__init__.py called    *)
(* in some environment.  Nothing is kept between calls, so a behaviour is  *)
(* one call.                                                               *)
(***************************************************************************)
Init ==
    /\ env \in Envs
    /\ call = "none"
    /\ ret = ReturnNone
    /\ components = ReturnNone
    /\ raw = ReturnNone
    /\ other = ReturnNone
    /\ raw2 = ReturnNone
    /\ args = ReturnNone
    /\ net = ReturnNone
    /\ payload = ReturnNone
    /\ requests = <<>>

MachineId ==
    /\ call = "none"
    /\ call' = "machine_id"
    /\ ret' = machine_id(env)
    /\ components' = ReturnNone
    /\ raw' = ReturnNone
    /\ UNCHANGED <<env, other, raw2, args, net, payload, requests>>

GetComponents ==
    /\ call = "none"
    /\ call' = "get_components"
    /\ ret' = get_components(env)
    /\ components' = ReturnNone
    /\ raw' = ReturnNone
    /\ UNCHANGED <<env, other, raw2, args, net, payload, requests>>

Fingerprint ==
    /\ call = "none"
    /\ call' = "fingerprint"
    /\ components' = get_components(env)
    /\ raw' = IF components'.kind = "return"
              THEN Return(RawOf(components'.value))
              ELSE ReturnNone
    /\ ret' = fingerprint(env)
    /\ UNCHANGED <<env, other, raw2, args, net, payload, requests>>

Next == MachineId \/ GetComponents \/ Fingerprint

Spec == Init /\ [][Next]_vars

(***************************************************************************)
(* Specification SpecCanon: lines 96-97 of fingerprint() applied to a      *)
(* collected map given as input, and to a second map that differs from it  *)
(* in its insertion order and in at most MaxEdits values.                  *)
(***************************************************************************)
\* How many values of the second map may differ from the first map's.
MaxEdits == 2

\* How far the insertion order of the second map is rotated.
MaxRotate == 1

K_runtime_version == <<"r","u","n","t","i","m","e","_","v","e","r","s","i","o","n">>

K_runtime_compiler == <<"r","u","n","t","i","m","e","_","c","o","m","p","i","l","e","r">>

\* The keys in the order get_components() inserts them.
CollectedKeys == LiteralKeys \o <<K_locale, K_mac, K_ip>>

\* The 16 keys as the specification's schema lists them.
SchemaKeys ==
    <<K_system, K_release, K_version, K_machine, K_processor,
      K_architecture, K_cpu_count, K_runtime_version, K_runtime_compiler,
      K_node, K_fqdn, K_timezone, K_machine_id, K_locale, K_mac, K_ip>>

AllUnknown(keys) == [i \in 1..Len(keys) |-> <<keys[i], UNKNOWN>>]

\* The map of the specification's end-to-end example.
ExampleMap ==
    DictSet(DictSet(DictSet(AllUnknown(SchemaKeys),
                            K_system, <<"L","i","n","u","x">>),
                    K_release, <<"5",".","0">>),
            K_machine_id, <<"a","b","c","1","2","3">>)

\* A collected map whose values have surrounding whitespace, upper case,
\* quotes, newlines, some length, and the separator.
VerbatimMap ==
    DictSet(DictSet(DictSet(DictSet(DictSet(AllUnknown(CollectedKeys),
        K_system, <<" ","L","i","n","u","x"," ">>),
        K_node, <<"B","O","X">>),
        K_architecture,
        <<"a","|","c","p","u","_","c","o","u","n","t",":","a">>),
        K_cpu_count, <<"a">>),
        K_version,
        <<"+","-","o"," ","R","o","o","t","\n"," "," ","\"","I","O","P",
          "l","a","t","f","o","r","m","S","e","r","i","a","l","N","u",
          "m","b","e","r","\""," ","="," ","\"","C","0","\"","\n">>)

InputMaps == {ExampleMap, VerbatimMap}

EditValues ==
    {UNKNOWN, <<"a">>,
     <<"a","|","c","p","u","_","c","o","u","n","t",":","a">>}

\* The maps that differ from d in at most n values.
RECURSIVE Edited(_, _)
Edited(d, n) ==
    IF n = 0 THEN {d}
    ELSE LET P == Edited(d, n - 1)
         IN  P \cup {DictSet(x[1], x[2], x[3])
                       : x \in P \X KeySet(d) \X EditValues}

\* The same items inserted in another order.
Rotated(d, r) ==
    [i \in 1..Len(d) |-> d[((i + r - 1) % Len(d)) + 1]]

Reversed(d) == [i \in 1..Len(d) |-> d[Len(d) + 1 - i]]

Reordered(d) == {Rotated(d, r) : r \in 0..MaxRotate} \cup {Reversed(d)}

InitCanon ==
    /\ env = ReturnNone
    /\ call = "none"
    /\ ret = ReturnNone
    /\ components \in {Return(d) : d \in InputMaps}
    /\ \E x \in Edited(components.value, MaxEdits) :
          \E o \in Reordered(x) : other = Return(o)
    /\ raw = ReturnNone
    /\ raw2 = ReturnNone
    /\ args = ReturnNone
    /\ net = ReturnNone
    /\ payload = ReturnNone
    /\ requests = <<>>

Canonicalize ==
    /\ call = "none"
    /\ call' = "canonicalize"
    /\ raw' = Return(RawOf(components.value))
    /\ raw2' = Return(RawOf(other.value))
    /\ ret' = Return(Sha256Hex(raw'.value))
    /\ UNCHANGED <<env, components, other, args, net, payload, requests>>

NextCanon == Canonicalize

SpecCanon == InitCanon /\ [][NextCanon]_vars

(***************************************************************************)
(* src/fp/client.py                                                        *)
(***************************************************************************)
get_fingerprint(e) == fingerprint(e)

K_fingerprint == <<"f","i","n","g","e","r","p","r","i","n","t">>

\* {"Content-Type": "application/json"}
DefaultHeaders ==
    << <<<<"C","o","n","t","e","n","t","-","T","y","p","e">>,
         <<"a","p","p","l","i","c","a","t","i","o","n","/","j","s","o","n">>>> >>

DefaultTimeout == 5

\* An exception with the argument it was constructed with.
RaiseWith(cls, arg) == [kind |-> "raise", cls |-> cls, arg |-> arg]

\* str(exc): URLError and HTTPError format their own text, the others
\* show the argument they were given.
StrExc(exc) ==
    IF exc.cls = "HTTPError"
    THEN <<"H","T","T","P"," ","E","r","r","o","r"," ">> \o exc.arg.code
         \o <<":"," ">> \o exc.arg.msg
    ELSE IF exc.cls = "URLError"
    THEN <<"<","u","r","l","o","p","e","n"," ","e","r","r","o","r"," ">>
         \o exc.arg \o <<">">>
    ELSE exc.arg

\* json.dumps of a character: '"', '\', newline and tab are escaped.
JsonEscapeChar(c) ==
    IF c = "\"" THEN <<"\\", "\"">>
    ELSE IF c = "\\" THEN <<"\\", "\\">>
    ELSE IF c = "\n" THEN <<"\\", "n">>
    ELSE IF c = "\t" THEN <<"\\", "t">>
    ELSE <<c>>

\* The escaped characters of a str, one half after the other.
RECURSIVE JsonEscape(_)
JsonEscape(s) ==
    IF s = <<>> THEN <<>>
    ELSE IF Len(s) = 1 THEN JsonEscapeChar(s[1])
    ELSE JsonEscape(SubSeq(s, 1, Len(s) \div 2))
         \o JsonEscape(SubSeq(s, (Len(s) \div 2) + 1, Len(s)))

JsonStr(s) == <<"\"">> \o JsonEscape(s) \o <<"\"">>

\* json.dumps(payload) for a dict of str to str: the items in the dict's
\* order, ", " between them and ": " inside them.
JsonDumps(d) ==
    <<"{">>
    \o Join(<<","," ">>,
            [i \in 1..Len(d) |-> JsonStr(d[i][1]) \o <<":"," ">>
                                    \o JsonStr(d[i][2])])
    \o <<"}">>

\* A payload in which the digest is written after the caller's pairs.
BuildPayloadDigestLast(digest, data) ==
    IF data.kind = "return" /\ data.value # <<>>
    THEN DictSet(data.value, K_fingerprint, digest)
    ELSE << <<K_fingerprint, digest>> >>

\* payload = {"fingerprint": ...}; if data: payload.update(data)
BuildPayload(digest, data) ==
    LET start == << <<K_fingerprint, digest>> >>
    IN  IF data.kind = "return" /\ data.value # <<>>
        THEN DictUpdate(start, data.value)
        ELSE start

\* urllib.request.Request(url, data=..., headers=headers or {...})
BuildRequest(a, body) ==
    [url |-> a.url,
     data |-> JsonDumps(body),
     headers |-> IF a.headers.kind = "return" /\ a.headers.value # <<>>
                 THEN a.headers.value
                 ELSE DefaultHeaders,
     timeout |-> a.timeout]

\* The body of the with block: read, decode, json.loads, and the inner
\* except that turns a JSONDecodeError into a ValueError.
ReadResponse(n) ==
    IF n.read.kind = "raise" THEN n.read
    ELSE IF ~n.read.value.utf8
    THEN RaiseWith("UnicodeDecodeError", <<"u","t","f","-","8">>)
    ELSE IF n.read.value.json.kind = "raise"
    THEN RaiseWith("ValueError",
                   <<"R","e","s","p","o","n","s","e"," ","r","e","t","u","r",
                     "n","e","d"," ","i","n","v","a","l","i","d"," ","J","S",
                     "O","N">>)
    ELSE n.read.value.json

\* The outer try block: urlopen, then the with block.
UrlopenTry(n) == IF n.open.kind = "raise" THEN n.open ELSE ReadResponse(n)

\* {"error": {"type": exc.__class__.__name__, "message": str(exc)}}
ErrorResult(exc) ==
    Return([error |-> [type |-> exc.cls, message |-> StrExc(exc)]])

\* except URLError as exc: ... except TimeoutError as exc: ...
HandleTransport(r) ==
    IF r.kind = "raise" /\ IsSubclass(r.cls, "URLError") THEN ErrorResult(r)
    ELSE IF r.kind = "raise" /\ IsSubclass(r.cls, "TimeoutError")
    THEN ErrorResult(r)
    ELSE r

\* post_fingerprint(url, data, headers, timeout) in environment e with
\* the network behaving as n: what it returns or raises, the payload it
\* built and the requests it sent.
post_fingerprint(e, a, n) ==
    LET fp == get_fingerprint(e)
    IN  IF fp.kind = "raise"
        THEN [ret |-> fp, payload |-> ReturnNone, requests |-> <<>>]
        ELSE LET body == BuildPayload(fp.value, a.data)
             IN  [ret |-> HandleTransport(UrlopenTry(n)),
                  payload |-> Return(body),
                  requests |-> <<BuildRequest(a, body)>>]

(***************************************************************************)
(* Specification SpecPost: one call of post_fingerprint() with some        *)
(* arguments, in some environment, with the network behaving in some way.  *)
(***************************************************************************)
NominalEnv ==
    [platform |-> LINUX,
     files |-> [p \in {MachineIdPaths[1], MachineIdPaths[2]} |->
                   Return(<<"a","b","c","1","2","3","\n">>)],
     ioreg |-> Absent.ioreg,
     winreg |-> Absent.winreg,
     lookups |-> NominalLookups]

PostEnvs ==
    {NominalEnv,
     [NominalEnv EXCEPT !.lookups[K_fqdn] = Raise("OSError")],
     [NominalEnv EXCEPT !.lookups[K_ip] = Raise("gaierror")]}

K_user == <<"u","s","e","r">>

K_host == <<"h","o","s","t">>

\* The data argument: None, an empty dict, or extra pairs, with and
\* without the key "fingerprint".
DataArgs ==
    {ReturnNone,
     Return(<<>>),
     Return(<< <<K_user, <<"a">>>> >>),
     Return(<< <<K_fingerprint, <<"x","\"","y">>>> >>),
     Return(<< <<K_user, <<"a">>>>, <<K_fingerprint, <<"a">>>> >>),
     Return(<< <<K_fingerprint, <<"a">>>>, <<K_host, <<"b","o","x">>>>,
               <<K_user, <<>>>> >>)}

HeaderArgs ==
    {ReturnNone, Return(<<>>),
     Return(<< <<<<"X","-","K","e","y">>, <<"a">>>> >>)}

ArgSets ==
    {[url |-> "http://host/fp", data |-> d, headers |-> h,
      timeout |-> DefaultTimeout] : d \in DataArgs, h \in HeaderArgs}

\* What urlopen() can raise: URLError for a failure while connecting and
\* sending (refused, name resolution, timeout), HTTPError for an error
\* status, and the exception of the socket or of http.client for a failure
\* while waiting for the response (a timeout, the peer closing the
\* connection without a response).
OpenFailures ==
    {RaiseWith("URLError",
               <<"[","E","r","r","n","o"," ","1","1","1","]"," ","C","o","n",
                 "n","e","c","t","i","o","n"," ","r","e","f","u","s","e","d">>),
     RaiseWith("URLError",
               <<"[","E","r","r","n","o"," ","-","2","]"," ","N","a","m","e",
                 " ","o","r"," ","s","e","r","v","i","c","e"," ","n","o","t",
                 " ","k","n","o","w","n">>),
     RaiseWith("URLError", <<"t","i","m","e","d"," ","o","u","t">>),
     RaiseWith("HTTPError",
               [code |-> <<"4","0","4">>,
                msg |-> <<"N","o","t"," ","F","o","u","n","d">>]),
     RaiseWith("TimeoutError", <<"t","i","m","e","d"," ","o","u","t">>),
     RaiseWith("RemoteDisconnected",
               <<"R","e","m","o","t","e"," ","e","n","d"," ","c","l","o","s",
                 "e","d"," ","c","o","n","n","e","c","t","i","o","n">>)}

\* What resp.read() can do: time out, or give a body that is not UTF-8,
\* is not JSON, or is JSON.
ReadOutcomes ==
    {RaiseWith("TimeoutError", <<"t","i","m","e","d"," ","o","u","t">>),
     Return([utf8 |-> FALSE, json |-> Raise("JSONDecodeError")]),
     Return([utf8 |-> TRUE, json |-> Raise("JSONDecodeError")]),
     Return([utf8 |-> TRUE,
             json |-> Return(<< <<<<"o","k">>, <<"1">>>> >>)])}

NetOutcomes ==
    {[open |-> o, read |-> ReturnNone] : o \in OpenFailures}
    \cup {[open |-> Return(TRUE), read |-> r] : r \in ReadOutcomes}

InitPost ==
    /\ env \in PostEnvs
    /\ args \in ArgSets
    /\ net \in NetOutcomes
    /\ call = "none"
    /\ ret = ReturnNone
    /\ components = ReturnNone
    /\ raw = ReturnNone
    /\ other = ReturnNone
    /\ raw2 = ReturnNone
    /\ payload = ReturnNone
    /\ requests = <<>>

PostFingerprint ==
    /\ call = "none"
    /\ call' = "post_fingerprint"
    /\ LET r == post_fingerprint(env, args, net)
       IN  /\ ret' = r.ret
           /\ payload' = r.payload
           /\ requests' = r.requests
    /\ UNCHANGED <<env, components, raw, other, raw2, args, net>>

NextPost == PostFingerprint

SpecPost == InitPost /\ [][NextPost]_vars

(***************************************************************************)
(* Properties of get_components() and machine_id(), under Spec.            *)
(***************************************************************************)
SchemaKeySet == {SchemaKeys[i] : i \in 1..Len(SchemaKeys)}

CollectedKeySet == {CollectedKeys[i] : i \in 1..Len(CollectedKeys)}

\* The keys whose value is the string the lookup returned, unconverted.
PlainKeys == LookupKeys \ {K_cpu_count, K_locale, K_mac}

\* C1: get_components() always returns a map whose key set is exactly the
\* 16-key schema of the specification (with runtime_version and
\* runtime_compiler), whichever lookups succeed or fail.
C1_SchemaComplete ==
    call = "get_components" =>
        /\ ret.kind = "return"
        /\ KeySet(ret.value) = SchemaKeySet

\* C2: in get_components(), no error of a lookup propagates; a key whose
\* lookup raises holds "unknown", and every other key holds the value its
\* own lookup produced.
C2_EveryLookupDegrades ==
    call = "get_components" =>
        /\ ret.kind = "return"
        /\ \A k \in LookupKeys :
              env.lookups[k].kind = "raise" => DictGet(ret.value, k) = UNKNOWN
        /\ \A k \in PlainKeys :
              env.lookups[k].kind = "return"
                  => DictGet(ret.value, k) = env.lookups[k].value

\* The platform-specific path of machine_id() fails: the platform is none
\* of the three, both Linux files are unreadable, ioreg fails or prints no
\* IOPlatformUUID, the registry or winreg is missing.
MachineIdPathFails(e) ==
    \/ /\ ~StartsWith(e.platform, LINUX)
       /\ e.platform \notin {DARWIN, WIN32}
    \/ /\ StartsWith(e.platform, LINUX)
       /\ \A p \in DOMAIN e.files : e.files[p].kind = "raise"
    \/ /\ e.platform = DARWIN
       /\ \/ e.ioreg.kind = "raise"
          \/ ReSearch(e.ioreg.value).kind = "none"
    \/ /\ e.platform = WIN32
       /\ e.winreg.kind = "raise"

\* C3: machine_id() never raises, and returns "unknown" when the
\* platform-specific path fails; get_components() then has
\* machine_id = "unknown" with all the other keys present, and raises only
\* with the error of one of its own lookups.
C3_MachineIdSentinel ==
    /\ call = "machine_id" =>
          /\ ret.kind = "return"
          /\ MachineIdPathFails(env) => ret.value = UNKNOWN
    /\ call = "get_components" /\ MachineIdPathFails(env) =>
          IF ret.kind = "return"
          THEN /\ DictGet(ret.value, K_machine_id) = UNKNOWN
               /\ KeySet(ret.value) = CollectedKeySet
               /\ \A k \in PlainKeys :
                     DictGet(ret.value, k) =
                        IF env.lookups[k].kind = "return"
                        THEN env.lookups[k].value
                        ELSE UNKNOWN
          ELSE \E k \in LookupKeys : env.lookups[k] = ret

\* The machine-id lookup fails on darwin because ioreg prints no UUID, and
\* get_components() returns the map with the sentinel.
C3_Witness ==
    /\ call = "get_components"
    /\ env.platform = DARWIN
    /\ env.ioreg.kind = "return"
    /\ MachineIdPathFails(env)
    /\ ret.kind = "return"
    /\ DictGet(ret.value, K_machine_id) = UNKNOWN
    /\ DictGet(ret.value, K_system) = <<"L","i","n","u","x">>

\* t is s without its leading and trailing whitespace.
IsTrimOf(t, s) ==
    \E i \in 1..(Len(s) + 1) : \E j \in 0..Len(s) :
        /\ t = SubSeq(s, i, j)
        /\ \A h \in 1..(i - 1) : s[h] \in Whitespace
        /\ \A h \in (j + 1)..Len(s) : s[h] \in Whitespace
        /\ t # <<>> => t[1] \notin Whitespace /\ t[Len(t)] \notin Whitespace

\* C4 as stated: on Linux machine_id() returns the trimmed contents of
\* /etc/machine-id when it is readable, else of /var/lib/dbus/machine-id
\* when that is readable, and "unknown" exactly when neither is readable.
C4_UnknownExactlyWhenUnreadable ==
    call = "machine_id" /\ StartsWith(env.platform, LINUX) =>
        LET f1 == env.files["/etc/machine-id"]
            f2 == env.files["/var/lib/dbus/machine-id"]
        IN  /\ ret.kind = "return"
            /\ f1.kind = "return" => IsTrimOf(ret.value, f1.value)
            /\ f1.kind = "raise" /\ f2.kind = "return"
                  => IsTrimOf(ret.value, f2.value)
            /\ ret.value = UNKNOWN <=> (f1.kind = "raise" /\ f2.kind = "raise")

\* C4 as amended: on Linux machine_id() returns the trimmed contents of
\* /etc/machine-id when it is readable, else of /var/lib/dbus/machine-id
\* when that is readable, and "unknown" whenever neither is readable; it
\* returns "unknown" otherwise only when the first readable file's trimmed
\* contents are that text.
C4_FirstReadableFile ==
    call = "machine_id" /\ StartsWith(env.platform, LINUX) =>
        LET f1 == env.files["/etc/machine-id"]
            f2 == env.files["/var/lib/dbus/machine-id"]
        IN  /\ ret.kind = "return"
            /\ f1.kind = "return" => IsTrimOf(ret.value, f1.value)
            /\ f1.kind = "raise" /\ f2.kind = "return"
                  => IsTrimOf(ret.value, f2.value)
            /\ f1.kind = "raise" /\ f2.kind = "raise" => ret.value = UNKNOWN
            /\ ret.value = UNKNOWN =>
                  \/ f1.kind = "raise" /\ f2.kind = "raise"
                  \/ f1.kind = "return" /\ IsTrimOf(UNKNOWN, f1.value)
                  \/ /\ f1.kind = "raise"
                     /\ f2.kind = "return"
                     /\ IsTrimOf(UNKNOWN, f2.value)

\* The first file is unreadable, and the second one's contents come back
\* without the whitespace around them.
C4_Witness ==
    /\ call = "machine_id"
    /\ env.platform = LINUX
    /\ env.files["/etc/machine-id"].kind = "raise"
    /\ env.files["/var/lib/dbus/machine-id"] = Return(<<"\t","9","f"," ","\n">>)
    /\ ret = Return(<<"9","f">>)

(***************************************************************************)
(* Properties of the string fingerprint() hashes, under SpecCanon.         *)
(***************************************************************************)
\* The string the specification's end-to-end example gives.
ExampleString ==
    <<"a","r","c","h","i","t","e","c","t","u","r","e",":","u","n","k","n",
      "o","w","n","|","c","p","u","_","c","o","u","n","t",":","u","n","k",
      "n","o","w","n","|","f","q","d","n",":","u","n","k","n","o","w","n",
      "|","i","p",":","u","n","k","n","o","w","n","|","l","o","c","a","l",
      "e",":","u","n","k","n","o","w","n","|","m","a","c",":","u","n","k",
      "n","o","w","n","|","m","a","c","h","i","n","e",":","u","n","k","n",
      "o","w","n","|","m","a","c","h","i","n","e","_","i","d",":","a","b",
      "c","1","2","3","|","n","o","d","e",":","u","n","k","n","o","w","n",
      "|","p","r","o","c","e","s","s","o","r",":","u","n","k","n","o","w",
      "n","|","r","e","l","e","a","s","e",":","5",".","0","|","r","u","n",
      "t","i","m","e","_","c","o","m","p","i","l","e","r",":","u","n","k",
      "n","o","w","n","|","r","u","n","t","i","m","e","_","v","e","r","s",
      "i","o","n",":","u","n","k","n","o","w","n","|","s","y","s","t","e",
      "m",":","L","i","n","u","x","|","t","i","m","e","z","o","n","e",":",
      "u","n","k","n","o","w","n","|","v","e","r","s","i","o","n",":","u",
      "n","k","n","o","w","n">>

\* The key of S that is smaller than every other key of S.
LeastKey(S) == CHOOSE k \in S : \A j \in S \ {k} : StrLess(k, j)

\* The "key:value" of the keys of S in ascending order, with one "|"
\* between two of them, for the mapping m.
RECURSIVE AscendingSegments(_, _)
AscendingSegments(m, S) ==
    IF S = {} THEN <<>>
    ELSE LET k == LeastKey(S)
         IN  k \o <<":">> \o m[k]
             \o (IF S = {k} THEN <<>>
                 ELSE <<"|">> \o AscendingSegments(m, S \ {k}))

\* C5: the hashed string is the map's keys in ascending code point order,
\* each as "key:value" with the value verbatim, joined by single "|" with
\* none leading or trailing; for the example map it is the example string.
C5_CanonicalString ==
    call = "canonicalize" =>
        /\ raw.value = AscendingSegments(AsMapping(components.value),
                                         KeySet(components.value))
        /\ components.value = ExampleMap => raw.value = ExampleString

\* The example map has been canonicalized to the example string.
C5_Witness ==
    /\ call = "canonicalize"
    /\ components.value = ExampleMap
    /\ raw.value = ExampleString

\* C6: two maps with the same keys and values, inserted in different
\* orders, give the same hashed string, and so the same digest.
C6_OrderIndependent ==
    call = "canonicalize"
    /\ AsMapping(components.value) = AsMapping(other.value)
        => raw.value = raw2.value

\* The second map has the first one's items in another order.
C6_Witness ==
    /\ call = "canonicalize"
    /\ AsMapping(components.value) = AsMapping(other.value)
    /\ components.value # other.value
    /\ raw.value = raw2.value

\* The keys on which two maps over the same keys differ.
DiffKeys(c, o) == {k \in KeySet(c) : DictGet(c, k) # DictGet(o, k)}

\* C7: replacing the value of one key by a different string changes the
\* hashed string.
C7_Sensitive ==
    call = "canonicalize"
    /\ Cardinality(DiffKeys(components.value, other.value)) = 1
        => raw.value # raw2.value

\* One value was replaced, by one that contains the separator.
C7_Witness ==
    /\ call = "canonicalize"
    /\ DiffKeys(components.value, other.value) = {K_timezone}
    /\ \E i \in 1..Len(DictGet(other.value, K_timezone)) :
          DictGet(other.value, K_timezone)[i] = "|"
    /\ raw.value # raw2.value

\* No value of the map contains "|".
NoSeparator(d) ==
    \A i \in 1..Len(d) : \A j \in 1..Len(d[i][2]) : d[i][2][j] # "|"

\* C10: on maps over the fixed key set whose values contain no "|", the
\* hashed string is injective: equal strings come from equal mappings.
C10_Injective ==
    call = "canonicalize"
    /\ NoSeparator(components.value)
    /\ NoSeparator(other.value)
    /\ raw.value = raw2.value
        => AsMapping(components.value) = AsMapping(other.value)

\* Two maps without "|" that differ in two values have different strings.
C10_Witness ==
    /\ call = "canonicalize"
    /\ NoSeparator(components.value)
    /\ NoSeparator(other.value)
    /\ Cardinality(DiffKeys(components.value, other.value)) = 2
    /\ raw.value # raw2.value

(***************************************************************************)
(* Properties of post_fingerprint(), under SpecPost.                       *)
(***************************************************************************)
\* The request was sent and failed in the connection or the transfer.
TransportFailure(n) == n.open.kind = "raise" \/ n.read.kind = "raise"

\* The response arrived and its body is not valid JSON.
InvalidBody(n) ==
    /\ n.open.kind = "return"
    /\ n.read.kind = "return"
    /\ ~n.read.value.utf8 \/ n.read.value.json.kind = "raise"

\* C8: whenever the request fails with a connection, DNS, HTTP-level or
\* timeout error, post_fingerprint() returns {"error": {type, message}}
\* with both non-empty, after one attempt, and raises nothing; it raises
\* only for a response body that is not valid JSON.
C8_TransportErrorsStructured ==
    call = "post_fingerprint" /\ requests # <<>> =>
        /\ Len(requests) = 1
        /\ TransportFailure(net) =>
              /\ ret.kind = "return"
              /\ ret.value.error.type # ""
              /\ ret.value.error.message # <<>>
        /\ ret.kind = "raise" => InvalidBody(net)

\* C9: the request body starts as {fingerprint: digest} and the caller's
\* pairs are merged into it, the caller's value winning: every key of the
\* caller is in the body with the caller's value, also "fingerprint", and
\* without extra pairs the body is exactly {fingerprint: digest}.
C9_PayloadMerge ==
    call = "post_fingerprint" /\ payload.kind = "return" =>
        LET digest == get_fingerprint(env).value
            body == AsMapping(payload.value)
            extra == IF args.data.kind = "return"
                     THEN AsMapping(args.data.value)
                     ELSE <<>>
        IN  /\ DOMAIN body = {K_fingerprint} \cup DOMAIN extra
            /\ \A k \in DOMAIN extra : body[k] = extra[k]
            /\ K_fingerprint \notin DOMAIN extra => body[K_fingerprint] = digest
            /\ DOMAIN extra = {} => payload.value = << <<K_fingerprint, digest>> >>
            /\ Len(payload.value) = Cardinality(DOMAIN body)

\* The caller gave "fingerprint" and another key, and its "fingerprint"
\* replaced the digest.
C9_Witness ==
    /\ call = "post_fingerprint"
    /\ payload.kind = "return"
    /\ args.data.kind = "return"
    /\ {K_fingerprint, K_user} \subseteq KeySet(args.data.value)
    /\ DictGet(payload.value, K_fingerprint) = <<"a">>
    /\ DictGet(payload.value, K_fingerprint) # get_fingerprint(env).value

====
